---- MODULE Spec2Model ----
(***************************************************************************)
(* Expense tracker: the record store (db.py), the page handlers and the    *)
(* timeframe filter (app.py), the spending analyzer and the quick-add      *)
(* parser (analysis.py).                                                   *)
(*                                                                         *)
(* Amounts are whole currency units (the float arithmetic of the program   *)
(* is taken as exact).  A timestamp is <<year, month, day, hour>> or NaT,  *)
(* the empty tuple.  A text is a sequence of one-character strings.        *)
(***************************************************************************)
EXTENDS Integers, Sequences, FiniteSets, TLC

VARIABLES
    rows,       \* committed content of table expenses, in rowid order
    seq,        \* committed sqlite_sequence entry of expenses (0: no entry)
    pc,         \* position of a running clear_all: "idle", "deleted", "reset"
    txRows,     \* table content as the clear_all connection sees it
    txSeq,      \* sqlite_sequence entry as the clear_all connection sees it
    clears,     \* clear_all calls completed since the last insert
    lastAdd,    \* id given to the last insert and the clears that preceded it
    inserts,    \* number of inserts so far
    outcome,    \* how the last operation ended
    obs,        \* what the last get_expenses returned
    now,        \* wall clock
    timeframe,  \* st.session_state["timeframe"]
    csv,        \* the file last downloaded
    trip,       \* the last import of a downloaded file: rows exported, records created
    table,      \* argument of analyze_spending
    result,     \* its return value
    text,       \* argument of parse_nl_expense
    parsed,     \* its return value
    df,         \* argument of filter_by_timeframe
    shown       \* its return value

dbVars     == <<rows, seq, pc, txRows, txSeq, clears, lastAdd, inserts, outcome, obs>>
appVars    == <<now, timeframe, csv, trip>>
anVars     == <<table, result>>
parseVars  == <<text, parsed>>
filterVars == <<df, shown>>
notDb     == <<now, timeframe, csv, trip, table, result, text, parsed, df, shown>>
notPage   == <<table, result, text, parsed, df, shown>>
vars == <<rows, seq, pc, txRows, txSeq, clears, lastAdd, inserts, outcome, obs,
          now, timeframe, csv, trip, table, result, text, parsed, df, shown>>

(***************************************************************************)
(* Values                                                                  *)
(***************************************************************************)
NaT  == <<>>

SeqMax(a, b) == IF a >= b THEN a ELSE b
SeqMin(a, b) == IF a <= b THEN a ELSE b

\* Lexicographic order on tuples of integers of one length.
RECURSIVE TupleLess(_, _)
TupleLess(a, b) ==
    IF a = <<>> \/ b = <<>> THEN FALSE
    ELSE IF Head(a) # Head(b) THEN Head(a) < Head(b)
    ELSE TupleLess(Tail(a), Tail(b))

\* Timestamp comparison as pandas does it: any comparison with NaT is False.
TsLeq(a, b) == a # NaT /\ b # NaT /\ (a = b \/ TupleLess(a, b))

IsLeap(y) == (y % 4 = 0 /\ y % 100 # 0) \/ y % 400 = 0

DaysInMonth(y, m) ==
    IF m = 2 THEN (IF IsLeap(y) THEN 29 ELSE 28)
    ELSE IF m \in {4, 6, 9, 11} THEN 30 ELSE 31

(***************************************************************************)
(* Date texts.  A date is stored as TEXT.  The program writes three forms: *)
(* date.isoformat() "YYYY-MM-DD", datetime.isoformat()                     *)
(* "YYYY-MM-DDTHH:..." and, from a csv file, str() of the cell: pandas'    *)
(* "YYYY-MM-DD HH:..." or anything else the file holds ("nan" for an empty *)
(* cell).                                                                  *)
(***************************************************************************)
DateIso(ts)     == [fmt |-> "date",  ts |-> <<ts[1], ts[2], ts[3], 0>>]
DateTimeIso(ts) == [fmt |-> "T",     ts |-> ts]
DateTimeStr(ts) == [fmt |-> "space", ts |-> ts]
JunkDate        == [fmt |-> "junk",  ts |-> NaT]

\* pd.to_datetime(..., errors="coerce") of one date text
to_datetime(d) == IF d.fmt = "junk" THEN NaT ELSE d.ts

\* Position of a date text in SQLite's BINARY collation: the ten characters
\* of the day first, then end of text < " " < "T"; a text that starts with a
\* letter sorts after every text that starts with a digit.
TextKey(d) ==
    IF d.fmt = "junk" THEN <<1, 0, 0, 0, 0, 0>>
    ELSE <<0, d.ts[1], d.ts[2], d.ts[3],
           CASE d.fmt = "date" -> 0 [] d.fmt = "space" -> 1 [] OTHER -> 2,
           d.ts[4]>>

(***************************************************************************)
(* db.py                                                                   *)
(***************************************************************************)
RECURSIVE MaxRowid(_)
MaxRowid(rs) == IF rs = <<>> THEN 0 ELSE SeqMax(Head(rs).id, MaxRowid(Tail(rs)))

\* AUTOINCREMENT: one more than the largest rowid the table has ever held,
\* which sqlite_sequence remembers.
NextId(rs, s) == SeqMax(s, MaxRowid(rs)) + 1

\* INSERT INTO expenses (amount, category, date) VALUES (?, ?, ?)
InsertRow(rs, s, amount, category, date) ==
    Append(rs, [id |-> NextId(rs, s), amount |-> amount,
                category |-> category, date |-> date])

\* DELETE FROM expenses
DeleteRows(rs) == <<>>

\* A clear_all that forgets the second statement.
KeepSequence(s) == s

\* DELETE FROM sqlite_sequence WHERE name='expenses'
DeleteSequence(s) == 0

\* A connection in autocommit mode would leave behind what it had done.
RollbackKeepsDone(committed, uncommitted) == uncommitted

\* What the database holds once a connection is dropped without commit():
\* the transaction sqlite3 opened before the first DELETE is rolled back.
Rollback(committed, uncommitted) == committed

\* SELECT ... ORDER BY date DESC: every order of the rows in which the date
\* texts do not increase (rows of equal date come in an order SQL leaves open).
get_expenses(rs) ==
    LET n == Len(rs)
        P == {p \in [1..n -> 1..n] : \A i, j \in 1..n : i # j => p[i] # p[j]}
    IN {[i \in 1..n |-> rs[p[i]]] : p \in
          {q \in P : \A i \in 1..n : i < n =>
              ~TupleLess(TextKey(rs[q[i]].date), TextKey(rs[q[i + 1]].date))}}

(***************************************************************************)
(* The store under concurrent callers: streamlit runs every session in a   *)
(* thread of its own, each operation on a connection of its own.           *)
(* add_expense and get_expenses run one statement; clear_all runs two in   *)
(* one transaction, and holds the write lock from the first to commit().   *)
(***************************************************************************)
MaxInserts == 4
MaxClears  == 2

Triple(a, c, d) == [amount |-> a, category |-> c, date |-> d]

DbInputs ==
    {Triple(500, <<"f", "o", "o", "d">>, DateIso(<<2024, 3, 1, 0>>)),
     Triple(700, <<"b", "i", "l", "l", "s">>, DateTimeIso(<<2024, 3, 1, 9>>))}

NoAdd == [id |-> 0, afterClears |-> 0]

DbInit ==
    /\ rows = <<>> /\ seq = 0
    /\ pc = "idle" /\ txRows = <<>> /\ txSeq = 0
    /\ clears = 0 /\ lastAdd = NoAdd /\ inserts = 0
    /\ outcome = "ok" /\ obs = <<>>

\* add_expense while no other connection holds the write lock
AddExpense(e) ==
    /\ pc = "idle"
    /\ inserts < MaxInserts
    /\ rows' = InsertRow(rows, seq, e.amount, e.category, e.date)
    /\ seq' = NextId(rows, seq)
    /\ lastAdd' = [id |-> NextId(rows, seq), afterClears |-> clears]
    /\ clears' = 0
    /\ inserts' = inserts + 1
    /\ outcome' = "ok"
    /\ UNCHANGED <<pc, txRows, txSeq, obs, notDb>>

\* add_expense while clear_all holds the write lock: the INSERT raises
\* "database is locked" and nothing is written.
AddExpenseLocked ==
    /\ pc # "idle"
    /\ outcome' = "locked"
    /\ UNCHANGED <<rows, seq, pc, txRows, txSeq, clears, lastAdd, inserts, obs, notDb>>

\* get_expenses: a reader sees committed data only
GetExpenses ==
    /\ \E r \in get_expenses(rows) : obs' = r
    /\ outcome' = "ok"
    /\ UNCHANGED <<rows, seq, pc, txRows, txSeq, clears, lastAdd, inserts, notDb>>

\* clear_all, first statement
ClearDeleteRows ==
    /\ pc = "idle"
    /\ clears < MaxClears
    /\ pc' = "deleted"
    /\ txRows' = DeleteRows(rows)
    /\ txSeq' = seq
    /\ UNCHANGED <<rows, seq, clears, lastAdd, inserts, outcome, obs, notDb>>

\* clear_all, second statement
ClearDeleteSequence ==
    /\ pc = "deleted"
    /\ pc' = "reset"
    /\ txSeq' = DeleteSequence(txSeq)
    /\ UNCHANGED <<rows, seq, txRows, clears, lastAdd, inserts, outcome, obs, notDb>>

\* clear_all, conn.commit()
ClearCommit ==
    /\ pc = "reset"
    /\ pc' = "idle"
    /\ rows' = txRows
    /\ seq' = txSeq
    /\ clears' = clears + 1
    /\ outcome' = "ok"
    /\ UNCHANGED <<txRows, txSeq, lastAdd, inserts, obs, notDb>>

\* clear_all raises after its first statement, after its second, or in
\* commit(): the connection goes away without a commit.
ClearFails ==
    /\ pc \in {"deleted", "reset"}
    /\ pc' = "idle"
    /\ rows' = Rollback(rows, txRows)
    /\ seq' = Rollback(seq, txSeq)
    /\ outcome' = IF pc = "deleted" THEN "failed after DELETE FROM expenses"
                  ELSE "failed after DELETE FROM sqlite_sequence"
    /\ UNCHANGED <<txRows, txSeq, clears, lastAdd, inserts, obs, notDb>>

DbNext ==
    \/ \E e \in DbInputs : AddExpense(e)
    \/ AddExpenseLocked
    \/ GetExpenses
    \/ ClearDeleteRows
    \/ ClearDeleteSequence
    \/ ClearCommit
    \/ ClearFails

(***************************************************************************)
(* Texts                                                                   *)
(***************************************************************************)
Digits    == <<"0", "1", "2", "3", "4", "5", "6", "7", "8", "9">>
UpperCase == <<"A", "B", "C", "D", "E", "F", "G", "H", "I", "J", "K", "L", "M",
               "N", "O", "P", "Q", "R", "S", "T", "U", "V", "W", "X", "Y", "Z">>
LowerCase == <<"a", "b", "c", "d", "e", "f", "g", "h", "i", "j", "k", "l", "m",
               "n", "o", "p", "q", "r", "s", "t", "u", "v", "w", "x", "y", "z">>

IsDigit(c) == \E i \in 1..Len(Digits) : Digits[i] = c
DigitVal(c) == (CHOOSE i \in 1..Len(Digits) : Digits[i] = c) - 1
IsSpace(c) == c = " "

LowerChar(c) ==
    IF \E i \in 1..Len(UpperCase) : UpperCase[i] = c
    THEN LowerCase[CHOOSE i \in 1..Len(UpperCase) : UpperCase[i] = c]
    ELSE c

\* str.lower()
Lower(t) == [i \in 1..Len(t) |-> LowerChar(t[i])]

\* str.strip()
Strip(t) ==
    IF \A i \in 1..Len(t) : IsSpace(t[i]) THEN <<>>
    ELSE LET a == CHOOSE i \in 1..Len(t) :
                    ~IsSpace(t[i]) /\ \A j \in 1..(i - 1) : IsSpace(t[j])
             b == CHOOSE i \in 1..Len(t) :
                    ~IsSpace(t[i]) /\ \A j \in (i + 1)..Len(t) : IsSpace(t[j])
         IN SubSeq(t, a, b)

\* w occurs in t at position i
OccursAt(t, w, i) == i + Len(w) - 1 <= Len(t) /\ SubSeq(t, i, i + Len(w) - 1) = w

\* w in t
Contains(t, w) == \E i \in 1..(Len(t) + 1) : OccursAt(t, w, i)

\* Value of a run of digits
RECURSIVE DigitsValue(_)
DigitsValue(ds) ==
    IF ds = <<>> THEN 0
    ELSE 10 * DigitsValue(SubSeq(ds, 1, Len(ds) - 1)) + DigitVal(ds[Len(ds)])

\* End of the run of digits that starts at i
RECURSIVE DigitRunEnd(_, _)
DigitRunEnd(t, i) ==
    IF i < Len(t) /\ IsDigit(t[i + 1]) THEN DigitRunEnd(t, i + 1) ELSE i

\* Words of the program
FOOD      == <<"f", "o", "o", "d">>
SHOPPING  == <<"s", "h", "o", "p", "p", "i", "n", "g">>
TRAVEL    == <<"t", "r", "a", "v", "e", "l">>
BILLS     == <<"b", "i", "l", "l", "s">>
TODAY     == <<"t", "o", "d", "a", "y">>
YESTERDAY == <<"y", "e", "s", "t", "e", "r", "d", "a", "y">>
NAN       == <<"n", "a", "n">>

(***************************************************************************)
(* analysis.py: parse_nl_expense                                           *)
(***************************************************************************)
\* Amounts are counted in hundredths of the currency unit.
Scale == 100

\* float() of a match of \d+(?:\.\d+)? that ends with at most two decimals
FloatOf(whole, frac) ==
    DigitsValue(whole) * Scale
      + (CASE Len(frac) = 0 -> 0
           [] Len(frac) = 1 -> 10 * DigitsValue(frac)
           [] OTHER -> DigitsValue(SubSeq(frac, 1, 2)))

\* re.search(r"(\d+(?:\.\d+)?)", text): the leftmost digit starts the match,
\* the digits after it are taken greedily, then "." and digits if both follow.
AmountMatch(t) ==
    IF \A i \in 1..Len(t) : ~IsDigit(t[i])
    THEN [found |-> FALSE, whole |-> <<>>, frac |-> <<>>]
    ELSE LET a == CHOOSE i \in 1..Len(t) :
                    IsDigit(t[i]) /\ \A j \in 1..(i - 1) : ~IsDigit(t[j])
             b == DigitRunEnd(t, a)
             hasFrac == b + 2 <= Len(t) /\ t[b + 1] = "." /\ IsDigit(t[b + 2])
         IN [found |-> TRUE,
             whole |-> SubSeq(t, a, b),
             frac  |-> IF hasFrac THEN SubSeq(t, b + 2, DigitRunEnd(t, b + 2))
                       ELSE <<>>]

\* categories = ["food", "shopping", "travel", "bills"]
categories == <<FOOD, SHOPPING, TRAVEL, BILLS>>

\* The word that occurs leftmost in the text, instead of the first of the list.
FirstInText(t) ==
    IF \A k \in 1..Len(categories) : ~Contains(t, categories[k]) THEN <<>>
    ELSE LET pos(w) == CHOOSE i \in 1..Len(t) :
                          OccursAt(t, w, i) /\ \A j \in 1..(i - 1) : ~OccursAt(t, w, j)
             k == CHOOSE k \in 1..Len(categories) :
                    /\ Contains(t, categories[k])
                    /\ \A l \in 1..Len(categories) :
                         Contains(t, categories[l]) => pos(categories[k]) <= pos(categories[l])
         IN categories[k]

\* A category is made up when the text holds none of the words.
GuessCategory(t) ==
    IF \A k \in 1..Len(categories) : ~Contains(t, categories[k]) THEN FOOD
    ELSE categories[CHOOSE k \in 1..Len(categories) :
                      /\ Contains(t, categories[k])
                      /\ \A l \in 1..(k - 1) : ~Contains(t, categories[l])]

\* for c in categories: if c in text: cat = c; break   (<<>> stands for None)
DetectCategory(t) ==
    IF \A k \in 1..Len(categories) : ~Contains(t, categories[k]) THEN <<>>
    ELSE categories[CHOOSE k \in 1..Len(categories) :
                      /\ Contains(t, categories[k])
                      /\ \A l \in 1..(k - 1) : ~Contains(t, categories[l])]

\* i starts a match of \d{4}-\d{2}-\d{2}
DateAt(t, i) ==
    /\ i + 9 <= Len(t)
    /\ \A j \in {0, 1, 2, 3, 5, 6, 8, 9} : IsDigit(t[i + j])
    /\ t[i + 4] = "-" /\ t[i + 7] = "-"

\* datetime.fromisoformat of a matched YYYY-MM-DD
fromisoformat(s) ==
    LET y == DigitsValue(SubSeq(s, 1, 4))
        m == DigitsValue(SubSeq(s, 6, 7))
        d == DigitsValue(SubSeq(s, 9, 10))
    IN IF y >= 1 /\ m \in 1..12 /\ d >= 1 /\ d <= DaysInMonth(y, m)
       THEN [raises |-> FALSE, ts |-> <<y, m, d, 0>>]
       ELSE [raises |-> TRUE, ts |-> NaT]

\* ts - pd.Timedelta(days=1)
DayBefore(ts) ==
    IF ts[3] > 1 THEN <<ts[1], ts[2], ts[3] - 1, ts[4]>>
    ELSE IF ts[2] > 1 THEN <<ts[1], ts[2] - 1, DaysInMonth(ts[1], ts[2] - 1), ts[4]>>
    ELSE <<ts[1] - 1, 12, 31, ts[4]>>

\* The date detection of parse_nl_expense
DetectDate(t, clock) ==
    IF Contains(t, TODAY) THEN [raises |-> FALSE, ts |-> clock]
    ELSE IF Contains(t, YESTERDAY) THEN [raises |-> FALSE, ts |-> DayBefore(clock)]
    ELSE IF \E i \in 1..Len(t) : DateAt(t, i)
    THEN LET a == CHOOSE i \in 1..Len(t) :
                    DateAt(t, i) /\ \A j \in 1..(i - 1) : ~DateAt(t, j)
             got == fromisoformat(SubSeq(t, a, a + 9))
         IN IF got.raises THEN [raises |-> FALSE, ts |-> clock] ELSE got
    ELSE [raises |-> FALSE, ts |-> clock]

Failure == [ok |-> FALSE, raised |-> FALSE, amount |-> 0, category |-> <<>>, date |-> NaT]

parse_nl_expense(input, clock) ==
    IF input = <<>> \/ Strip(input) = <<>> THEN Failure
    ELSE LET t   == Strip(Lower(input))
             am  == AmountMatch(t)
             cat == DetectCategory(t)
             dt  == DetectDate(t, clock)
         IN IF ~am.found THEN Failure
            ELSE IF cat = <<>> THEN Failure
            ELSE [ok |-> ~dt.raises, raised |-> dt.raises,
                  amount |-> FloatOf(am.whole, am.frac),
                  category |-> cat, date |-> dt.ts]

(***************************************************************************)
(* analysis.py: rows_to_df, analyze_spending                               *)
(*                                                                         *)
(* A raw amount is a number or something that is not one.  id and date of  *)
(* a row are carried along and never read by analyze_spending.             *)
(***************************************************************************)
Num(v)   == [k |-> "num", v |-> v]
NotANum  == [k |-> "text", v |-> 0]

\* pd.to_numeric(errors="coerce").fillna(0)
to_numeric_fillna(cell) == IF cell.k = "num" THEN cell.v ELSE 0

\* df["category"].fillna("").str.lower().str.strip()
NormalCategory(c) == Strip(Lower(c))

rows_to_df(rs) ==
    [i \in 1..Len(rs) |->
        [amount |-> to_numeric_fillna(rs[i].amount),
         category |-> NormalCategory(rs[i].category)]]

\* df["amount"].sum()
RECURSIVE SumAmount(_)
SumAmount(d) == IF d = <<>> THEN 0 ELSE Head(d).amount + SumAmount(Tail(d))

\* df.groupby("category")["amount"].sum()
CategoriesOf(d) == {d[i].category : i \in 1..Len(d)}
CategoryTotal(d, c) == SumAmount(SelectSeq(d, LAMBDA r : r.category = c))

\* The smallest group comes first.
SmallestCategories(d) ==
    {c \in CategoriesOf(d) :
        \A o \in CategoriesOf(d) : CategoryTotal(d, c) <= CategoryTotal(d, o)}

\* .sort_values(ascending=False).index[0]: a category of the largest sum
\* (which one among equal sums is left to the sort).
TopCategories(d) ==
    {c \in CategoriesOf(d) :
        \A o \in CategoriesOf(d) : CategoryTotal(d, c) >= CategoryTotal(d, o)}

\* percent = (top_amt / total) * 100, kept as the fraction num / den
Percent(top_amt, total) == [num |-> top_amt * 100, den |-> total]
ZeroPercent == [num |-> 0, den |-> 1]

\* The thresholds compared with > instead of >=.
SeverityStrict(p) ==
    IF p.num > 40 * p.den THEN "alarm"
    ELSE IF p.num > 25 * p.den THEN "warning"
    ELSE "balanced"

\* if percent >= 40 ... elif percent >= 25 ... else ...
Severity(p) ==
    IF p.num >= 40 * p.den THEN "alarm"
    ELSE IF p.num >= 25 * p.den THEN "warning"
    ELSE "balanced"

\* tips.get(top_cat, "Track recurring expenses.")
Tip(c) ==
    CASE c = FOOD -> "Try reducing takeout and cook at home more often."
      [] c = SHOPPING -> "Use a wishlist and buy only after 48 hours."
      [] c = TRAVEL -> "Look for discount deals or plan trips off-season."
      [] c = BILLS -> "Review subscriptions and remove unused services."
      [] OTHER -> "Track recurring expenses."

NoCategory == <<"<None>">>

\* The total is not looked at before the categories are ranked.
SkipsTotalCheck(total) == FALSE

\* if total <= 0
NothingSpent(total) == total <= 0

\* analyze_spending(rows), with top the category the sort puts first
analyze_spending(rs, top) ==
    LET d == rows_to_df(rs)
        total == SumAmount(d)
    IN IF d = <<>>
       THEN [suggestion |-> <<"No expenses yet.">>, top_category |-> NoCategory,
             percent_of_total |-> ZeroPercent, total |-> 0, count |-> 0]
       ELSE IF NothingSpent(total)
       THEN [suggestion |-> <<"No expenses added in this timeframe.">>,
             top_category |-> NoCategory, percent_of_total |-> ZeroPercent,
             total |-> total, count |-> Len(d)]
       ELSE LET percent == Percent(CategoryTotal(d, top), total)
            IN [suggestion |-> <<Severity(percent), Tip(top)>>,
                top_category |-> top, percent_of_total |-> percent,
                total |-> total, count |-> Len(d)]

(***************************************************************************)
(* app.py: df_from_rows, filter_by_timeframe                               *)
(***************************************************************************)
\* The stored amount is a float already; the category is lower-cased and
\* stripped; the date text is parsed, NaT if it cannot be.
df_from_rows(rs) ==
    [i \in 1..Len(rs) |->
        [id |-> rs[i].id, amount |-> rs[i].amount,
         category |-> NormalCategory(rs[i].category),
         date |-> to_datetime(rs[i].date)]]

\* ts - pd.DateOffset(months=k): the same day k months earlier, or the last
\* day of that month if it is shorter
MonthsBack(ts, k) ==
    LET n == ts[1] * 12 + (ts[2] - 1) - k
        y == n \div 12
        m == (n % 12) + 1
    IN <<y, m, SeqMin(ts[3], DaysInMonth(y, m)), ts[4]>>

\* ts.replace(day=1): the time of day stays
FirstOfMonth(ts) == <<ts[1], ts[2], 1, ts[4]>>

\* ts + pd.offsets.MonthEnd(0): the time of day stays
MonthEnd(ts) == <<ts[1], ts[2], DaysInMonth(ts[1], ts[2]), ts[4]>>

\* ts.replace(month=1, day=1)
FirstOfYear(ts) == <<ts[1], 1, 1, ts[4]>>

Timeframes == {"This Month", "Last Month", "Last 3 Months", "This Year", "All Time"}
Bounded    == Timeframes \ {"All Time"}

filter_by_timeframe(d, tf, clock) ==
    IF d = <<>> THEN d
    ELSE CASE tf = "This Month" ->
                SelectSeq(d, LAMBDA r : TsLeq(FirstOfMonth(clock), r.date))
           [] tf = "Last Month" ->
                LET prev  == MonthsBack(clock, 1)
                    start == FirstOfMonth(prev)
                    end   == MonthEnd(FirstOfMonth(prev))
                IN SelectSeq(d, LAMBDA r : TsLeq(start, r.date) /\ TsLeq(r.date, end))
           [] tf = "Last 3 Months" ->
                SelectSeq(d, LAMBDA r : TsLeq(FirstOfMonth(MonthsBack(clock, 3)), r.date))
           [] tf = "This Year" ->
                SelectSeq(d, LAMBDA r : TsLeq(FirstOfYear(clock), r.date))
           [] OTHER -> d

(***************************************************************************)
(* app.py: the csv file.  A cell of the amount column holds a number,      *)
(* nothing, or a text that is no number; a cell of the category column a   *)
(* text (<<>>: nothing); a cell of the date column a date text or nothing. *)
(***************************************************************************)
EmptyCell == [k |-> "empty", v |-> 0]
EmptyDate == [fmt |-> "empty", ts |-> NaT]

\* Texts pd.read_csv reads as a missing value (some of its default list)
NaValues ==
    {<<>>, NAN, <<"n", "u", "l", "l">>, <<"N", "A">>, <<"N", "a", "N">>,
     <<"N", "U", "L", "L">>, <<"N", "o", "n", "e">>, <<"n", "/", "a">>}

\* float(r["amount"])
FloatOfCell(cell) ==
    CASE cell.k = "num"   -> [raises |-> FALSE, nan |-> FALSE, v |-> cell.v]
      [] cell.k = "empty" -> [raises |-> FALSE, nan |-> TRUE,  v |-> 0]
      [] OTHER            -> [raises |-> TRUE,  nan |-> FALSE, v |-> 0]

\* str(r["category"]): a missing value prints as "nan"
CategoryOfCell(cell) == IF cell \in NaValues THEN NAN ELSE cell

\* str(r["date"])
DateOfCell(cell) == IF cell.fmt = "empty" THEN JunkDate ELSE cell

\* The loop of the import: add_expense row by row, each insert committed on
\* its own; the first row whose amount is no float (ValueError) or is NaN
\* (amount REAL NOT NULL) ends it.
RECURSIVE ImportRows(_, _, _)
ImportRows(rs, s, file) ==
    IF file = <<>> THEN [rows |-> rs, seq |-> s, failed |-> FALSE]
    ELSE LET r == Head(file)
             a == FloatOfCell(r.amount)
         IN IF a.raises \/ a.nan THEN [rows |-> rs, seq |-> s, failed |-> TRUE]
            ELSE ImportRows(
                   InsertRow(rs, s, a.v, Lower(CategoryOfCell(r.category)),
                             DateOfCell(r.date)),
                   NextId(rs, s), Tail(file))

\* df_filtered.to_csv(index=False): all four columns; a datetime column
\* prints as days when no value has a time of day, NaT prints as nothing.
to_csv(d) ==
    LET daysOnly == \A i \in 1..Len(d) : d[i].date = NaT \/ d[i].date[4] = 0
    IN [i \in 1..Len(d) |->
          [id |-> d[i].id,
           amount |-> Num(d[i].amount),
           category |-> d[i].category,
           date |-> IF d[i].date = NaT THEN EmptyDate
                    ELSE IF daysOnly THEN DateIso(d[i].date)
                    ELSE DateTimeStr(d[i].date)]]

\* (amount, category, date) of the rows of a canonical table
Triples(d) ==
    [i \in 1..Len(d) |-> Triple(d[i].amount, d[i].category, d[i].date)]

(***************************************************************************)
(* app.py: the page.  One action per button; every click is a run of the   *)
(* script on its own.                                                      *)
(***************************************************************************)
MaxRows == 2

\* The clock runs through these instants.
Instants == {<<2024, 3, 15, 9>>, <<2024, 3, 31, 14>>}

\* st.number_input(min_value=0.0)
FormAmounts == {0, 500}
\* st.selectbox("Category", ["Food", "Shopping", "Travel", "Bills"])
FormCategories == {<<"F", "o", "o", "d">>, <<"B", "i", "l", "l", "s">>}
FormDates == {<<2024, 3, 1, 0>>, <<2024, 2, 29, 0>>}

QuickTexts ==
    {<<"-", "7", " ">> \o BILLS,
     <<"5", "0", " ", "d", "o", "l", "l", "a", "r", "s">>,
     FOOD \o <<" ", "1", ".", "5", " ">> \o YESTERDAY}

FileRow(a, c, d) == [amount |-> a, category |-> c, date |-> d]

\* Files a user uploads
UserFiles ==
    {<<FileRow(Num(-500), <<"F", "o", "o", "d">>, DateIso(<<2024, 3, 2, 0>>))>>,
     <<FileRow(Num(300), <<" ", " ">>, DateIso(<<2024, 3, 2, 0>>))>>,
     <<FileRow(Num(200), TRAVEL, EmptyDate), FileRow(NotANum, FOOD, EmptyDate)>>,
     <<FileRow(EmptyCell, FOOD, DateIso(<<2024, 3, 2, 0>>))>>}

PageTimeframes == {"This Month", "Last Month", "All Time"}

NoFile == [cells |-> <<>>, triples |-> <<>>]
NoTrip == [done |-> FALSE, exported |-> <<>>, created |-> <<>>]

AppInit ==
    /\ now \in Instants
    /\ timeframe = "This Month"
    /\ csv = NoFile
    /\ trip = NoTrip

dbHistory == <<pc, txRows, txSeq, clears, lastAdd, inserts, outcome, obs>>

\* "Save" of add_form
AddForm(amt, cat, day) ==
    /\ Len(rows) < MaxRows
    /\ IF amt > 0
       THEN /\ rows' = InsertRow(rows, seq, amt, Lower(cat), DateIso(day))
            /\ seq' = NextId(rows, seq)
       ELSE UNCHANGED <<rows, seq>>
    /\ trip' = NoTrip
    /\ UNCHANGED <<dbHistory, now, timeframe, csv, notPage>>

\* "Parse & Add from text"
QuickAdd(t) ==
    /\ Len(rows) < MaxRows
    /\ LET p == parse_nl_expense(t, now)
       IN IF p.ok
          THEN /\ rows' = InsertRow(rows, seq, p.amount, Lower(p.category),
                                    DateTimeIso(p.date))
               /\ seq' = NextId(rows, seq)
          ELSE UNCHANGED <<rows, seq>>
    /\ trip' = NoTrip
    /\ UNCHANGED <<dbHistory, now, timeframe, csv, notPage>>

\* "Upload CSV" with a file of the user's
ImportUserFile(file) ==
    /\ Len(rows) + Len(file) <= MaxRows
    /\ LET got == ImportRows(rows, seq, file)
       IN rows' = got.rows /\ seq' = got.seq
    /\ trip' = NoTrip
    /\ UNCHANGED <<dbHistory, now, timeframe, csv, notPage>>

\* "Upload CSV" with the file downloaded before; trip keeps what this run
\* of the import was given and what it made of it.
ImportDownloaded ==
    /\ csv # NoFile
    /\ Len(rows) + Len(csv.cells) <= MaxRows
    /\ LET got == ImportRows(rows, seq, csv.cells)
       IN /\ rows' = got.rows
          /\ seq' = got.seq
          /\ trip' = [done |-> TRUE,
                      exported |-> csv.triples,
                      created |-> Triples(df_from_rows(
                                     SubSeq(got.rows, Len(rows) + 1, Len(got.rows))))]
    /\ UNCHANGED <<dbHistory, now, timeframe, csv, notPage>>

\* "Download CSV (filtered)": offered when the filtered table is not empty
Download ==
    /\ \E r \in get_expenses(rows) :
         LET d == filter_by_timeframe(df_from_rows(r), timeframe, now)
         IN /\ d # <<>>
            /\ csv' = [cells |-> to_csv(d), triples |-> Triples(d)]
    /\ trip' = NoTrip
    /\ UNCHANGED <<rows, seq, dbHistory, now, timeframe, notPage>>

\* "Clear all data (danger)"
ClearAllData ==
    /\ rows' = DeleteRows(rows)
    /\ seq' = DeleteSequence(seq)
    /\ trip' = NoTrip
    /\ UNCHANGED <<dbHistory, now, timeframe, csv, notPage>>

\* st.selectbox("Timeframe", ..., key="timeframe")
SelectTimeframe(tf) ==
    /\ timeframe' = tf
    /\ trip' = NoTrip
    /\ UNCHANGED <<dbVars, now, csv, notPage>>

\* Time passes.
Tick ==
    /\ \E t \in Instants : TupleLess(now, t) /\ now' = t
    /\ UNCHANGED <<dbVars, timeframe, csv, trip, notPage>>

(***************************************************************************)
(* analyze_spending on the tables a caller can hand it                     *)
(***************************************************************************)
MaxTable == 5

RawRow(a, c) == [amount |-> a, category |-> c]

RawRows ==
    {RawRow(Num(2000), FOOD), RawRow(Num(2000), SHOPPING), RawRow(Num(2000), TRAVEL),
     RawRow(Num(2000), BILLS), RawRow(Num(2000), NAN),
     RawRow(Num(-2000), <<" ", "F", "o", "o", "d">>),
     RawRow(NotANum, <<"B", "I", "L", "L", "S", " ">>)}

NoResult ==
    [suggestion |-> <<"not called">>, top_category |-> NoCategory,
     percent_of_total |-> ZeroPercent, total |-> 0, count |-> 0]

AnIdle == table = <<>> /\ result = NoResult

\* One more row reaches the caller's table.
AppendRow(r) ==
    /\ Len(table) < MaxTable
    /\ table' = Append(table, r)
    /\ result' = NoResult
    /\ UNCHANGED <<dbVars, appVars, parseVars, filterVars>>

Analyze ==
    /\ result = NoResult
    /\ \/ /\ table = <<>>
          /\ result' = analyze_spending(table, NoCategory)
       \/ \E top \in TopCategories(rows_to_df(table)) :
             result' = analyze_spending(table, top)
    /\ UNCHANGED <<table, dbVars, appVars, parseVars, filterVars>>

AnNext == (\E r \in RawRows : AppendRow(r)) \/ Analyze

(***************************************************************************)
(* parse_nl_expense on texts put together from these pieces                *)
(***************************************************************************)
MaxPieces == 3

Pieces ==
    {<<"5">>, <<"1", ".", "5">>, <<" ">>, <<"x">>,
     FOOD, <<"T", "r", "a", "v", "e", "l">>, BILLS, SHOPPING, TODAY, YESTERDAY,
     <<"2", "0", "2", "4", "-", "0", "1", "-", "1", "5">>,
     <<"2", "0", "2", "4", "-", "1", "3", "-", "4", "5">>}

NotParsed == [ok |-> FALSE, raised |-> FALSE, amount |-> -1, category |-> <<>>, date |-> NaT]

ParseIdle == text = [pieces |-> 0, chars |-> <<>>] /\ parsed = NotParsed

Type(piece) ==
    /\ text.pieces < MaxPieces
    /\ text' = [pieces |-> text.pieces + 1, chars |-> text.chars \o piece]
    /\ parsed' = NotParsed
    /\ UNCHANGED <<dbVars, appVars, anVars, filterVars>>

Parse ==
    /\ parsed = NotParsed
    /\ parsed' = parse_nl_expense(text.chars, now)
    /\ UNCHANGED <<text, dbVars, appVars, anVars, filterVars>>

ParseNext == (\E piece \in Pieces : Type(piece)) \/ Parse

(***************************************************************************)
(* filter_by_timeframe on canonical tables                                 *)
(***************************************************************************)
MaxDf == 2

FilterInstants == {<<2024, 3, 15, 9>>, <<2024, 3, 31, 14>>, <<2025, 1, 15, 9>>}

FilterDates ==
    {NaT, <<2023, 12, 1, 0>>, <<2023, 12, 31, 23>>, <<2024, 1, 1, 0>>,
     <<2024, 2, 1, 0>>, <<2024, 2, 29, 9>>, <<2024, 2, 29, 23>>,
     <<2024, 3, 1, 0>>, <<2024, 3, 1, 14>>, <<2024, 3, 20, 0>>,
     <<2024, 10, 1, 0>>, <<2024, 12, 31, 20>>, <<2025, 1, 1, 0>>, <<2025, 2, 1, 0>>}

NotShown == [valid |-> FALSE, out |-> <<>>]

FilterIdle == df = <<>> /\ shown = NotShown

FilterAddRow(d) ==
    /\ Len(df) < MaxDf
    /\ df' = Append(df, [id |-> Len(df) + 1, amount |-> 500, category |-> FOOD, date |-> d])
    /\ shown' = NotShown
    /\ UNCHANGED <<now, timeframe, dbVars, csv, trip, anVars, parseVars>>

FilterSelect(tf) ==
    /\ timeframe' = tf
    /\ shown' = NotShown
    /\ UNCHANGED <<now, df, dbVars, csv, trip, anVars, parseVars>>

FilterTick ==
    /\ \E t \in FilterInstants : TupleLess(now, t) /\ now' = t
    /\ shown' = NotShown
    /\ UNCHANGED <<timeframe, df, dbVars, csv, trip, anVars, parseVars>>

ApplyFilter ==
    /\ ~shown.valid
    /\ shown' = [valid |-> TRUE, out |-> filter_by_timeframe(df, timeframe, now)]
    /\ UNCHANGED <<now, timeframe, df, dbVars, csv, trip, anVars, parseVars>>

FilterNext ==
    \/ \E d \in FilterDates : FilterAddRow(d)
    \/ \E tf \in Timeframes : FilterSelect(tf)
    \/ FilterTick
    \/ ApplyFilter

(***************************************************************************)
(* Specifications                                                          *)
(***************************************************************************)
AppIdle ==
    /\ now = <<2024, 3, 15, 9>> /\ timeframe = "This Month"
    /\ csv = NoFile /\ trip = NoTrip

\* The page in one session
Init == DbInit /\ AppInit /\ AnIdle /\ ParseIdle /\ FilterIdle

Next ==
    \/ \E amt \in FormAmounts, cat \in FormCategories, day \in FormDates :
          AddForm(amt, cat, day)
    \/ \E t \in QuickTexts : QuickAdd(t)
    \/ \E f \in UserFiles : ImportUserFile(f)
    \/ ImportDownloaded
    \/ Download
    \/ ClearAllData
    \/ \E tf \in PageTimeframes : SelectTimeframe(tf)
    \/ Tick

Spec == Init /\ [][Next]_vars

\* The store under concurrent callers
InitDb == DbInit /\ AppIdle /\ AnIdle /\ ParseIdle /\ FilterIdle
SpecDb == InitDb /\ [][DbNext]_vars

\* The analyzer
SpecAnalyze == InitDb /\ [][AnNext]_vars

\* The parser
SpecParse == InitDb /\ [][ParseNext]_vars

\* The filter
InitFilter ==
    /\ DbInit /\ AnIdle /\ ParseIdle /\ FilterIdle
    /\ now \in FilterInstants /\ timeframe \in Timeframes
    /\ csv = NoFile /\ trip = NoTrip
SpecFilter == InitFilter /\ [][FilterNext]_vars

(***************************************************************************)
(* Properties                                                              *)
(***************************************************************************)
Vocabulary == {categories[k] : k \in 1..Len(categories)}

\* C1 (SpecDb): once clear_all has completed, and again once it has completed
\* a second time with no insert in between, the table is empty; and the
\* record inserted next after two such calls gets id 1.
C1_ClearTwiceThenIdOne ==
    /\ clears \in {1, 2} => rows = <<>>
    /\ lastAdd.afterClears >= 2 => lastAdd.id = 1

\* Three records were inserted, the last of them after two clear_all calls
\* that followed the first two.
C1_Witness ==
    /\ inserts >= 3 /\ lastAdd.afterClears = 2 /\ lastAdd.id = 1
    /\ Len(rows) = 1 /\ rows[1].id = 1

\* C2 (SpecDb): in every committed state, which is what every other
\* connection reads, the rows are all gone exactly if the id sequence is
\* reset: the two statements of clear_all take effect together or not at
\* all, also when clear_all fails between them and when inserts and reads of
\* other callers come in between.
C2_ClearAllAtomic == (rows = <<>>) <=> (seq = 0)

\* clear_all failed between its two statements, a reader has seen rows
\* since, and rows and sequence are both as they were.
C2_Witness ==
    /\ outcome = "failed after DELETE FROM expenses"
    /\ rows # <<>> /\ seq = Len(rows) /\ obs = rows

\* C3 (SpecAnalyze): a result with count = 0 or total <= 0 has no top
\* category and percent 0.
C3_NoTopWithoutSpending ==
    (result # NoResult /\ (result.count = 0 \/ result.total <= 0))
        => (result.top_category = NoCategory /\ result.percent_of_total.num = 0)

\* A table with rows whose amounts sum to less than zero was analyzed.
C3_Witness ==
    /\ result # NoResult /\ result.count > 0 /\ result.total < 0
    /\ result.top_category = NoCategory

\* The window the timeframe names, relative to the clock
InWindow(tf, clock, d) ==
    LET prev == MonthsBack(clock, 1)
        back == MonthsBack(clock, 3)
    IN /\ d # NaT
       /\ CASE tf = "This Month" ->
                 TsLeq(<<clock[1], clock[2], 1, 0>>, d) /\ TsLeq(d, clock)
            [] tf = "Last Month" ->
                 /\ TsLeq(<<prev[1], prev[2], 1, 0>>, d)
                 /\ TsLeq(d, <<prev[1], prev[2], DaysInMonth(prev[1], prev[2]), 23>>)
            [] tf = "Last 3 Months" ->
                 TsLeq(<<back[1], back[2], 1, 0>>, d) /\ TsLeq(d, clock)
            [] tf = "This Year" ->
                 TsLeq(<<clock[1], 1, 1, 0>>, d) /\ TsLeq(d, clock)
            [] OTHER -> TRUE

\* C4 (SpecFilter): for a bounded timeframe the filter returns exactly the
\* rows whose date lies in the window the timeframe names, in their order.
C4_FilterIsWindow ==
    (shown.valid /\ timeframe \in Bounded)
        => shown.out = SelectSeq(df, LAMBDA r : InWindow(timeframe, now, r.date))

Blank(t) == \A i \in 1..Len(t) : IsSpace(t[i])
HasNumber(t) == \E i \in 1..Len(t) : IsDigit(t[i])
WordsIn(t) == {w \in Vocabulary : Contains(t, w)}

\* C5 (SpecParse): parse_nl_expense never raises; it returns None exactly if
\* the text is empty or blank, holds no number, or (lower-cased, as the
\* parser reads it) holds none of the four words; otherwise it returns a
\* triple whose category is one of the four words, one the text holds.
C5_ParseFailsExactlyWhen ==
    parsed # NotParsed =>
        LET t == Lower(text.chars)
        IN /\ ~parsed.raised
           /\ ~parsed.ok <=> (Blank(t) \/ ~HasNumber(t) \/ WordsIn(t) = {})
           /\ parsed.ok => (parsed.category \in WordsIn(t) /\ parsed.amount >= 0)

\* A text with a number and none of the words was refused.
C5_Witness ==
    /\ parsed # NotParsed /\ ~parsed.ok
    /\ HasNumber(text.chars) /\ WordsIn(Lower(text.chars)) = {}

\* C6 as stated (SpecAnalyze): food 60 and shopping 40 give top category
\* food, 40 percent and the alarm line.
C6_AsStated ==
    LET d == rows_to_df(table)
    IN (/\ result # NoResult
        /\ CategoriesOf(d) = {FOOD, SHOPPING}
        /\ CategoryTotal(d, FOOD) = 60 * Scale
        /\ CategoryTotal(d, SHOPPING) = 40 * Scale)
         => /\ result.top_category = FOOD
            /\ result.percent_of_total.num = 40 * result.percent_of_total.den
            /\ result.suggestion[1] = "alarm"

\* C6 (SpecAnalyze): food 60 and shopping 40 give top category food,
\* 60 percent and the alarm line.
C6_SixtyPercent ==
    LET d == rows_to_df(table)
    IN (/\ result # NoResult
        /\ CategoriesOf(d) = {FOOD, SHOPPING}
        /\ CategoryTotal(d, FOOD) = 60 * Scale
        /\ CategoryTotal(d, SHOPPING) = 40 * Scale)
         => /\ result.top_category = FOOD
            /\ result.percent_of_total.num = 60 * result.percent_of_total.den
            /\ result.total = 100 * Scale
            /\ result.suggestion[1] = "alarm"

\* Such a table was analyzed.
C6_Witness ==
    LET d == rows_to_df(table)
    IN /\ result # NoResult
       /\ CategoriesOf(d) = {FOOD, SHOPPING}
       /\ CategoryTotal(d, FOOD) = 60 * Scale
       /\ CategoryTotal(d, SHOPPING) = 40 * Scale
       /\ result.top_category = FOOD

\* C7 (SpecParse): of several words in the text, the parser returns the one
\* that comes first in the list food, shopping, travel, bills, wherever the
\* words stand in the text.
C7_FirstInListWins ==
    (parsed # NotParsed /\ parsed.ok /\ Cardinality(WordsIn(Lower(text.chars))) > 1)
        => \E k \in 1..Len(categories) :
              /\ parsed.category = categories[k]
              /\ categories[k] \in WordsIn(Lower(text.chars))
              /\ \A l \in 1..(k - 1) : categories[l] \notin WordsIn(Lower(text.chars))

\* The text starts with travel and holds food after it; food was returned.
C7_Witness ==
    /\ parsed.ok /\ parsed.category = FOOD
    /\ OccursAt(Lower(text.chars), TRAVEL, 1)
    /\ ~OccursAt(Lower(text.chars), FOOD, 1)

\* C8 (Spec): the records an import of a downloaded file creates have the
\* (amount, category, date) of the rows that were exported, row by row.
C8_RoundTrip == trip.done => trip.created = trip.exported

\* C9 (Spec): every record of the store, and every row of the table made
\* from it, has an amount >= 0.
C9_AmountsNonNegative ==
    \A i \in 1..Len(rows) :
        rows[i].amount >= 0 /\ df_from_rows(rows)[i].amount >= 0

====
